---- MODULE Spec2Model ----
(***************************************************************************)
(* Model of AnomalyDetection.py: the per-sample loop of                    *)
(* run_anomaly_detection together with update_mean_std, detect_anomaly and *)
(* clean_old_data.  Plotting and pacing calls do not change the modelled   *)
(* state and are left out.                                                 *)
(*                                                                         *)
(* Two specifications.  Spec is run_anomaly_detection on samples that      *)
(* data_stream can yield.  SpecCalls is the module right after import with *)
(* its functions called directly, on any float.                            *)
(***************************************************************************)
EXTENDS Integers, Sequences, FiniteSets, TLC

\* ---------------------------------------------------------------- constants
WINDOW_SIZE == 40
LOWER_BOUND == -20
UPPER_BOUND == 20
DISPLAY_DURATION == 40

\* ------------------------------------------------------------------- bounds
\* Number of samples the producer is followed for.
MaxTick == 50
\* The random calls of the producer's first MaxFree samples are arbitrary;
\* after them they keep returning what they returned last.
MaxFree == 3
\* Number of direct calls followed in SpecCalls.
MaxCalls == 2

\* ----------------------------------------------------------- float64 values
\* A Python float is modelled bit for bit.  A finite double is
\*   [k |-> "fin", s |-> sign, m |-> mantissa, e |-> exponent]
\* with value s * m * 2^e, where s is -1, 0 or 1 and m is a natural number
\* with 2^52 <= m < 2^53 (m = 0, e = 0 for zero).  nan and the infinities
\* are values of their own.  Every operation returns the exact result
\* rounded to the nearest double, ties to the even mantissa, as IEEE-754
\* arithmetic does.  The sign of zero, subnormal numbers and overflow are
\* not modelled: the program's values stay far from both ends of the range.
\*
\* A natural number of any size is the sequence of its digits in base 2^14,
\* lowest digit first, without leading zero digits (<<>> is 0).
BASE == 2 ^ 14

MantBits == 53

TailOf(a) == IF a = <<>> THEN <<>> ELSE Tail(a)

HeadOf(a) == IF a = <<>> THEN 0 ELSE Head(a)

RECURSIVE BNorm(_)
BNorm(a) ==
  IF a = <<>> THEN <<>>
  ELSE IF a[Len(a)] = 0 THEN BNorm(SubSeq(a, 1, Len(a) - 1))
  ELSE a

RECURSIVE BAddC(_, _, _)
BAddC(a, b, c) ==
  IF a = <<>> /\ b = <<>> THEN (IF c = 0 THEN <<>> ELSE <<c>>)
  ELSE LET x == HeadOf(a) + HeadOf(b) + c
       IN <<x % BASE>> \o BAddC(TailOf(a), TailOf(b), x \div BASE)

BAdd(a, b) == BAddC(a, b, 0)

RECURSIVE BSubC(_, _, _)
BSubC(a, b, c) ==
  IF a = <<>> THEN <<>>
  ELSE LET x == Head(a) - HeadOf(b) - c
       IN IF x < 0 THEN <<x + BASE>> \o BSubC(Tail(a), TailOf(b), 1)
          ELSE <<x>> \o BSubC(Tail(a), TailOf(b), 0)

\* a - b for a >= b.
BSub(a, b) == BNorm(BSubC(a, b, 0))

RECURSIVE BCmpAt(_, _, _)
BCmpAt(a, b, i) ==
  IF i = 0 THEN 0
  ELSE IF a[i] < b[i] THEN -1
  ELSE IF a[i] > b[i] THEN 1
  ELSE BCmpAt(a, b, i - 1)

\* -1, 0 or 1 as a < b, a = b or a > b.
BCmp(a, b) ==
  IF Len(a) < Len(b) THEN -1
  ELSE IF Len(a) > Len(b) THEN 1
  ELSE BCmpAt(a, b, Len(a))

RECURSIVE BMulSmallC(_, _, _)
BMulSmallC(a, d, c) ==
  IF a = <<>> THEN (IF c = 0 THEN <<>> ELSE <<c % BASE>> \o BMulSmallC(a, d, c \div BASE))
  ELSE LET x == Head(a) * d + c
       IN <<x % BASE>> \o BMulSmallC(Tail(a), d, x \div BASE)

\* a * d for a small d (d <= 2^16).
BMulSmall(a, d) == IF d = 0 THEN <<>> ELSE BMulSmallC(a, d, 0)

\* a * BASE^w.
BShiftDigits(a, w) == IF a = <<>> THEN <<>> ELSE [i \in 1..w |-> 0] \o a

RECURSIVE BMul(_, _)
BMul(a, b) ==
  IF b = <<>> THEN <<>>
  ELSE BAdd(BMulSmall(a, Head(b)), BShiftDigits(BMul(a, Tail(b)), 1))

RECURSIVE BDivStep(_, _, _, _)
\* Digits 1..i of the quotient of (r * BASE^i + a[1..i]) by d, and the
\* remainder.
BDivStep(a, d, i, r) ==
  IF i = 0 THEN <<<<>>, r>>
  ELSE LET cur == r * BASE + a[i]
           rest == BDivStep(a, d, i - 1, cur % d)
       IN <<Append(rest[1], cur \div d), rest[2]>>

NormFirst(qr) == <<BNorm(qr[1]), qr[2]>>

\* <<a \div d, a % d>> for a small d (0 < d <= 2^16).
BDivSmall(a, d) == NormFirst(BDivStep(a, d, Len(a), 0))

\* a * 2^k.
BShl(a, k) == BShiftDigits(BMulSmall(a, 2 ^ (k % 14)), k \div 14)

AddSticky(qr, sticky) == <<qr[1], qr[2] # 0 \/ sticky>>

\* <<a \div 2^k, a % 2^k # 0>>: the digits below digit k \div 14 are
\* dropped whole, the rest is divided by 2^(k % 14).
BShr(a, k) ==
  IF k \div 14 >= Len(a) THEN <<<<>>, a # <<>> >>
  ELSE AddSticky(BDivSmall(SubSeq(a, k \div 14 + 1, Len(a)), 2 ^ (k % 14)),
                 \E i \in 1..(k \div 14) : a[i] # 0)

RECURSIVE IntBitLen(_)
IntBitLen(n) == IF n = 0 THEN 0 ELSE 1 + IntBitLen(n \div 2)

BBitLen(a) == IF a = <<>> THEN 0 ELSE 14 * (Len(a) - 1) + IntBitLen(a[Len(a)])

BIsOdd(a) == a # <<>> /\ a[1] % 2 = 1

\* The value of a number of at most two digits.
BToInt(a) == HeadOf(a) + BASE * HeadOf(TailOf(a))

RECURSIVE BFromInt(_)
BFromInt(n) == IF n = 0 THEN <<>> ELSE <<n % BASE>> \o BFromInt(n \div BASE)

RECURSIVE SqrtSearch(_, _, _)
\* The largest r in lo..hi with r * r <= x.
SqrtSearch(x, lo, hi) ==
  IF lo = hi THEN lo
  ELSE LET mid == (lo + hi + 1) \div 2
       IN IF mid * mid <= x THEN SqrtSearch(x, mid, hi)
          ELSE SqrtSearch(x, lo, mid - 1)

\* Digit i of a, 0 beyond its length.
Limb(a, i) == IF i <= Len(a) THEN a[i] ELSE 0

RECURSIVE SqrtDigit(_, _, _)
SqrtTry(rem, r2b, guess, t) ==
  IF BCmp(t, rem) <= 0 THEN <<guess, BSub(rem, t)>>
  ELSE SqrtDigit(rem, r2b, guess - 1)

\* <<d, rem - (r2b + d) * d>> for the largest d <= guess with
\* (r2b + d) * d <= rem.
SqrtDigit(rem, r2b, guess) ==
  SqrtTry(rem, r2b, guess, BMulSmall(BAdd(r2b, BFromInt(guess)), guess))

\* An upper estimate of the next digit of the root: the digit is at most
\* u \div (r * BASE) for u = rem \div 2, estimated from the leading digits.
SqrtEstimate(r, u) ==
  LET est == (Limb(u, Len(r) + 2) * BASE + Limb(u, Len(r) + 1)) \div r[Len(r)]
  IN IF est < BASE THEN est ELSE BASE - 1

SqrtGuess(r, rem) ==
  IF r = <<>> THEN SqrtSearch(BToInt(rem), 0, BASE - 1)
  ELSE SqrtEstimate(r, BShr(rem, 1)[1])

RECURSIVE BSqrtPairs(_, _, _, _)
BSqrtNext(a, i, r, dr) == BSqrtPairs(a, i - 1, BNorm(<<dr[1]>> \o r), dr[2])

BSqrtStep(a, i, r, rem) ==
  BSqrtNext(a, i, r, SqrtDigit(rem, BShiftDigits(BMulSmall(r, 2), 1),
                               SqrtGuess(r, rem)))

\* Square root by hand, one digit of the root for two digits of a: r is
\* the root of the digits above pair i and rem what they leave.
BSqrtPairs(a, i, r, rem) ==
  IF i = 0 THEN <<r, rem # <<>> >>
  ELSE BSqrtStep(a, i, r,
                 BNorm(<<Limb(a, 2 * i - 1), Limb(a, 2 * i)>> \o rem))

\* <<the integer part of the square root of a, whether a is not a square>>.
BSqrt(a) == BSqrtPairs(a, (Len(a) + 1) \div 2, <<>>, <<>>)

Zero == [k |-> "fin", s |-> 0, m |-> <<>>, e |-> 0]
NaN == [k |-> "nan", s |-> 0, m |-> <<>>, e |-> 0]
PInf == [k |-> "inf", s |-> 1, m |-> <<>>, e |-> 0]
NInf == [k |-> "inf", s |-> -1, m |-> <<>>, e |-> 0]

IsFinite(a) == a.k = "fin"

\* A mantissa that rounding carried to MantBits + 1 bits is halved.
PackMantissa(s, m, e) ==
  IF BBitLen(m) > MantBits
  THEN [k |-> "fin", s |-> s, m |-> BShr(m, 1)[1], e |-> e + 1]
  ELSE [k |-> "fin", s |-> s, m |-> m, e |-> e]

\* q, or q + 1 when the dropped part is above one half (halfbit and below)
\* or is one half and q is odd.
RoundHalfEven(q, halfbit, below) ==
  IF halfbit /\ (below \/ BIsOdd(q)) THEN BAdd(q, <<1>>) ELSE q

\* r is the number with one bit more than the mantissa keeps, and whether
\* anything was dropped below that bit.
PackRounded(s, r, e, sticky) ==
  PackMantissa(s, RoundHalfEven(BShr(r[1], 1)[1], BIsOdd(r[1]),
                                r[2] \/ sticky), e)

PackBits(s, n, e, sticky, len) ==
  IF len <= MantBits
  THEN [k |-> "fin", s |-> s, m |-> BShl(n, MantBits - len),
        e |-> e - (MantBits - len)]
  ELSE PackRounded(s, BShr(n, len - MantBits - 1), e + (len - MantBits),
                   sticky)

\* The double nearest to s * (n + f) * 2^e, where n is a natural number and
\* f is 0 when ~sticky and some fraction strictly between 0 and 1 otherwise.
\* With a sticky fraction n must have more than MantBits + 1 bits.
RoundPack(s, n, e, sticky) ==
  IF n = <<>> \/ s = 0 THEN Zero ELSE PackBits(s, n, e, sticky, BBitLen(n))

\* An int of the program as a float.
FromInt(i) == RoundPack(IF i < 0 THEN -1 ELSE 1,
                        BFromInt(IF i < 0 THEN 0 - i ELSE i), 0, FALSE)

\* The double nearest to s * (qr[1] + f) * 2^e for a quotient qr[1] with
\* remainder qr[2].
PackQuotient(s, qr, e) == RoundPack(s, qr[1], e, qr[2] # 0)

\* The float written with three decimals: the double nearest to t / 1000.
FromMilli(t) ==
  PackQuotient(IF t < 0 THEN -1 ELSE 1,
               BDivSmall(BShl(BFromInt(IF t < 0 THEN 0 - t ELSE t), 70), 1000),
               -70)

FNeg(a) == [a EXCEPT !.s = 0 - a.s]

\* |ma - mb| where the signs differ, ma + mb where they agree.
FAddMagnitude(same, ma, mb) ==
  IF same THEN BAdd(ma, mb)
  ELSE IF BCmp(ma, mb) >= 0 THEN BSub(ma, mb)
  ELSE BSub(mb, ma)

FAddSigned(sa, sb, ma, mb, e, sticky) ==
  RoundPack(IF sa = sb \/ BCmp(ma, mb) >= 0 THEN sa ELSE sb,
            FAddMagnitude(sa = sb, ma, mb), e, sticky)

\* The sum of two finite doubles with a.e >= b.e, neither of them zero.
\* The digits of a beyond the last place of b are kept exactly.  A b that
\* lies wholly below three guard bits of a (far) only leaves a fraction:
\* above a's bits when the signs agree, below them otherwise.
FAddAligned(a, b) ==
  LET far == a.e - b.e > 2 * MantBits
  IN FAddSigned(a.s, b.s, BShl(a.m, IF far THEN 3 ELSE a.e - b.e),
                IF ~far THEN b.m ELSE IF a.s = b.s THEN <<>> ELSE <<1>>,
                IF far THEN a.e - 3 ELSE b.e, far)

FAdd(a, b) ==
  IF a.k = "nan" \/ b.k = "nan" THEN NaN
  ELSE IF a.k = "inf" /\ b.k = "inf" THEN (IF a.s = b.s THEN a ELSE NaN)
  ELSE IF a.k = "inf" THEN a
  ELSE IF b.k = "inf" THEN b
  ELSE IF a.s = 0 THEN b
  ELSE IF b.s = 0 THEN a
  ELSE FAddAligned(IF a.e >= b.e THEN a ELSE b, IF a.e >= b.e THEN b ELSE a)

FSub(a, b) == FAdd(a, FNeg(b))

FMul(a, b) ==
  IF a.k = "nan" \/ b.k = "nan" THEN NaN
  ELSE IF a.k = "fin" /\ b.k = "fin"
       THEN RoundPack(a.s * b.s, BMul(a.m, b.m), a.e + b.e, FALSE)
  ELSE IF a.s = 0 \/ b.s = 0 THEN NaN
  ELSE [k |-> "inf", s |-> a.s * b.s, m |-> <<>>, e |-> 0]

\* a / n for a positive int n (n < 2^14).
FDivInt(a, n) ==
  IF a.k = "fin" THEN PackQuotient(a.s, BDivSmall(BShl(a.m, 70), n), a.e - 70)
  ELSE a

\* a < b as Python compares floats: FALSE when either is nan.
FLt(a, b) ==
  IF a.k = "nan" \/ b.k = "nan" THEN FALSE
  ELSE IF a.k = "inf" \/ b.k = "inf"
       THEN (IF a.k = "inf" /\ b.k = "inf" THEN a.s < b.s
             ELSE IF a.k = "inf" THEN a.s < 0 ELSE b.s > 0)
  ELSE IF a.s # b.s THEN a.s < b.s
  ELSE IF a.s = 0 THEN FALSE
  ELSE LET c == IF a.e # b.e THEN (IF a.e < b.e THEN -1 ELSE 1)
                ELSE BCmp(a.m, b.m)
       IN IF a.s > 0 THEN c < 0 ELSE c > 0

PackRoot(r, e) == RoundPack(1, r[1], e, r[2])

\* The root of m * 2^e with e - k even: of (m * 2^k) * 2^(e - k).
FSqrtShifted(a, k) == PackRoot(BSqrt(BShl(a.m, k)), (a.e - k) \div 2)

\* np.sqrt: nan for a negative argument.
FSqrt(a) ==
  IF a.k = "nan" THEN NaN
  ELSE IF a.k = "inf" THEN (IF a.s > 0 THEN PInf ELSE NaN)
  ELSE IF a.s < 0 THEN NaN
  ELSE IF a.s = 0 THEN Zero
  ELSE FSqrtShifted(a, IF a.e % 2 = 0 THEN 58 ELSE 59)

\* ------------------------------------------------------------- f"{x:.2f}"
Digit(d) == <<"0", "1", "2", "3", "4", "5", "6", "7", "8", "9">>[d + 1]

RECURSIVE NatToStr(_)
NatToStr(n) == IF n < 10 THEN Digit(n) ELSE NatToStr(n \div 10) \o Digit(n % 10)

\* r is a number of half hundredths and whether a fraction was dropped:
\* the nearest number of hundredths, a tie going to the even neighbour.
HundredthsOf(r) ==
  BToInt(RoundHalfEven(BShr(r[1], 1)[1], BIsOdd(r[1]), r[2]))

\* |a| in hundredths for a finite a below 2^14: the exact value of the
\* double times 100, rounded to the nearest integer.
RoundHundredths(a) ==
  IF a.s = 0 THEN 0
  ELSE HundredthsOf(BShr(BMulSmall(a.m, 100), 0 - a.e - 1))

FormatTenths(s, h) ==
  (IF s < 0 THEN "-" ELSE "") \o NatToStr(h \div 100) \o "."
    \o Digit((h \div 10) % 10)

\* Variant: one decimal instead of two.
FormatFixed1(a) ==
  IF a.k = "nan" THEN "nan"
  ELSE IF a.k = "inf" THEN (IF a.s > 0 THEN "inf" ELSE "-inf")
  ELSE FormatTenths(a.s, RoundHundredths(a))

FormatHundredths(s, h) ==
  (IF s < 0 THEN "-" ELSE "") \o NatToStr(h \div 100) \o "."
    \o Digit((h \div 10) % 10) \o Digit(h % 10)

FormatFixed2(a) ==
  IF a.k = "nan" THEN "nan"
  ELSE IF a.k = "inf" THEN (IF a.s > 0 THEN "inf" ELSE "-inf")
  ELSE FormatHundredths(a.s, RoundHundredths(a))

\* ------------------------------------------------------ deque(maxlen=...)
\* Variant: a deque without maxlen.
DequeAppendUnbounded(d, x, maxlen) == Append(d, x)

\* Variant: appendleft instead of append.
DequeAppendLeft(d, x, maxlen) ==
  IF Len(d) = maxlen THEN <<x>> \o SubSeq(d, 1, Len(d) - 1) ELSE <<x>> \o d

\* Variant: a full deque drops its newest entry instead of its oldest.
DequeAppendDropNewest(d, x, maxlen) ==
  IF Len(d) = maxlen THEN SubSeq(d, 1, Len(d) - 1) \o <<x>> ELSE Append(d, x)

\* Variant: the head is dropped one entry before the deque is full.
DequeAppendOffByOne(d, x, maxlen) ==
  IF Len(d) >= maxlen - 1 THEN Tail(d) \o <<x>> ELSE Append(d, x)

\* deque.append on a bounded deque: a full deque drops its head.
DequeAppend(d, x, maxlen) ==
  IF Len(d) = maxlen THEN Tail(d) \o <<x>> ELSE Append(d, x)


\* ------------------------------------------------------------------ state
VARIABLES
  current_time,          \* run_anomaly_detection: tick counter
  new_value,             \* the sample of the current iteration
  is_generated_anomaly,  \* its flag
  detected,              \* what detect_anomaly returned for it
  previous_value,
  window, mean, std_dev, \* module state of the statistics
  data_x, data_y,
  anomaly_x, anomaly_y, anomaly_labels,
  gauss_next,            \* random: the pending result of random.gauss
  calls                  \* SpecCalls: the direct calls made so far

vars == <<current_time, new_value, is_generated_anomaly, detected,
          previous_value, window, mean, std_dev, data_x, data_y,
          anomaly_x, anomaly_y, anomaly_labels, gauss_next, calls>>

\* Variant: n counts the updates instead of being the window length.
update_mean_std_counter(new, m, s, w) ==
  LET n == current_time + 1
  IN IF n = 0 THEN <<new, FromInt(0)>>
     ELSE LET old_mean == m
              mean1 == FAdd(m, FDivInt(FSub(new, old_mean), n + 1))
              acc == FAdd(s, FMul(FSub(new, old_mean), FSub(new, mean1)))
          IN <<mean1, IF n > 1 THEN FSqrt(FDivInt(acc, n)) ELSE FromInt(1)>>

\* --------------------------------------------------------- update_mean_std
\* Returns <<mean, std_dev>> after the update; w is the module's window as
\* the function finds it.
update_mean_std(new, m, s, w) ==
  LET n == Len(w)
  IN IF n = 0 THEN <<new, FromInt(0)>>
     ELSE LET old_mean == m
              mean1 == FAdd(m, FDivInt(FSub(new, old_mean), n + 1))
              acc == FAdd(s, FMul(FSub(new, old_mean), FSub(new, mean1)))
          IN <<mean1, IF n > 1 THEN FSqrt(FDivInt(acc, n)) ELSE FromInt(1)>>

\* Variant: a jump of more than 30 from the previous value is anomalous too.
detect_anomaly_delta(new, prev, flag) ==
  IF flag THEN TRUE
  ELSE IF FLt(new, FromInt(LOWER_BOUND)) \/ FLt(FromInt(UPPER_BOUND), new)
       THEN TRUE
       ELSE IF FLt(FromInt(30), FSub(new, prev))
               \/ FLt(FromInt(30), FSub(prev, new))
            THEN TRUE
            ELSE FALSE

\* Variant: the bounds themselves count as anomalous.
detect_anomaly_inclusive(new, prev, flag) ==
  IF flag THEN TRUE
  ELSE IF ~FLt(FromInt(LOWER_BOUND), new) \/ ~FLt(new, FromInt(UPPER_BOUND))
       THEN TRUE
       ELSE FALSE

\* ---------------------------------------------------------- detect_anomaly
detect_anomaly(new, prev, flag) ==
  IF flag THEN TRUE
  ELSE IF FLt(new, FromInt(LOWER_BOUND)) \/ FLt(FromInt(UPPER_BOUND), new)
       THEN TRUE
       ELSE FALSE

RECURSIVE clean_old_data_tight(_, _, _)
\* Variant: the window is taken to end one tick earlier.
clean_old_data_tight(dx, dy, now) ==
  IF dx = <<>> THEN <<dx, dy>>
  ELSE IF dx[1] <= now - (WINDOW_SIZE - 1)
       THEN clean_old_data_tight(Tail(dx), Tail(dy), now)
       ELSE <<dx, dy>>

\* ---------------------------------------------------------- clean_old_data
RECURSIVE clean_old_data(_, _, _)
\* Returns <<data_x, data_y>>.
clean_old_data(dx, dy, now) ==
  IF dx = <<>> THEN <<dx, dy>>
  ELSE IF dx[1] < now - WINDOW_SIZE
       THEN clean_old_data(Tail(dx), Tail(dy), now)
       ELSE <<dx, dy>>

RECURSIVE clean_old_anomalies_le(_, _, _, _)
\* Variant: the entry at the cutoff is evicted too.
clean_old_anomalies_le(ax, ay, al, now) ==
  IF ax # <<>> /\ ax[1] <= now - WINDOW_SIZE
  THEN clean_old_anomalies_le(Tail(ax), Tail(ay), Tail(al), now)
  ELSE <<ax, ay, al>>

RECURSIVE clean_old_anomalies_late(_, _, _, _)
\* Variant: the cutoff is one tick too old.
clean_old_anomalies_late(ax, ay, al, now) ==
  IF ax # <<>> /\ ax[1] < now - WINDOW_SIZE - 1
  THEN clean_old_anomalies_late(Tail(ax), Tail(ay), Tail(al), now)
  ELSE <<ax, ay, al>>

RECURSIVE clean_old_anomalies_nolabels(_, _, _, _)
\* Variant: the label of an evicted anomaly is not removed.
clean_old_anomalies_nolabels(ax, ay, al, now) ==
  IF ax # <<>> /\ ax[1] < now - WINDOW_SIZE
  THEN clean_old_anomalies_nolabels(Tail(ax), Tail(ay), al, now)
  ELSE <<ax, ay, al>>

RECURSIVE clean_old_anomalies(_, _, _, _)
\* The loop over anomaly_x in run_anomaly_detection; returns
\* <<anomaly_x, anomaly_y, anomaly_labels>>.
clean_old_anomalies(ax, ay, al, now) ==
  IF ax # <<>> /\ ax[1] < now - WINDOW_SIZE
  THEN clean_old_anomalies(Tail(ax), Tail(ay), Tail(al), now)
  ELSE <<ax, ay, al>>

\* ---------------------------------------------------- generate_data_point
\* 10 * np.sin(2 * np.pi * t / 50) for t = 0 .. 59, as the doubles the
\* expression evaluates to.
SeasonalTable ==
  << Zero,
     [k |-> "fin", s |-> 1, m |-> <<13016, 5158, 6755, 1283>>, e |-> -52],
     [k |-> "fin", s |-> 1, m |-> <<1214, 12614, 4787, 1273>>, e |-> -51],
     [k |-> "fin", s |-> 1, m |-> <<4958, 11083, 13069, 1884>>, e |-> -51],
     [k |-> "fin", s |-> 1, m |-> <<2515, 10207, 4741, 1233>>, e |-> -50],
     [k |-> "fin", s |-> 1, m |-> <<12534, 5706, 11964, 1504>>, e |-> -50],
     [k |-> "fin", s |-> 1, m |-> <<10264, 10581, 7218, 1752>>, e |-> -50],
     [k |-> "fin", s |-> 1, m |-> <<1764, 12489, 8419, 1972>>, e |-> -50],
     [k |-> "fin", s |-> 1, m |-> <<7444, 15994, 12119, 1080>>, e |-> -49],
     [k |-> "fin", s |-> 1, m |-> <<3448, 10278, 2926, 1158>>, e |-> -49],
     [k |-> "fin", s |-> 1, m |-> <<13599, 12330, 5772, 1217>>, e |-> -49],
     [k |-> "fin", s |-> 1, m |-> <<9791, 11868, 5368, 1257>>, e |-> -49],
     [k |-> "fin", s |-> 1, m |-> <<10879, 8122, 7769, 1277>>, e |-> -49],
     [k |-> "fin", s |-> 1, m |-> <<10879, 8122, 7769, 1277>>, e |-> -49],
     [k |-> "fin", s |-> 1, m |-> <<9791, 11868, 5368, 1257>>, e |-> -49],
     [k |-> "fin", s |-> 1, m |-> <<13600, 12330, 5772, 1217>>, e |-> -49],
     [k |-> "fin", s |-> 1, m |-> <<3447, 10278, 2926, 1158>>, e |-> -49],
     [k |-> "fin", s |-> 1, m |-> <<7443, 15994, 12119, 1080>>, e |-> -49],
     [k |-> "fin", s |-> 1, m |-> <<1764, 12489, 8419, 1972>>, e |-> -50],
     [k |-> "fin", s |-> 1, m |-> <<10266, 10581, 7218, 1752>>, e |-> -50],
     [k |-> "fin", s |-> 1, m |-> <<12535, 5706, 11964, 1504>>, e |-> -50],
     [k |-> "fin", s |-> 1, m |-> <<2514, 10207, 4741, 1233>>, e |-> -50],
     [k |-> "fin", s |-> 1, m |-> <<4963, 11083, 13069, 1884>>, e |-> -51],
     [k |-> "fin", s |-> 1, m |-> <<1224, 12614, 4787, 1273>>, e |-> -51],
     [k |-> "fin", s |-> 1, m |-> <<13028, 5158, 6755, 1283>>, e |-> -52],
     [k |-> "fin", s |-> 1, m |-> <<13065, 16229, 15099, 1411>>, e |-> -102],
     [k |-> "fin", s |-> -1, m |-> <<13017, 5158, 6755, 1283>>, e |-> -52],
     [k |-> "fin", s |-> -1, m |-> <<1209, 12614, 4787, 1273>>, e |-> -51],
     [k |-> "fin", s |-> -1, m |-> <<4958, 11083, 13069, 1884>>, e |-> -51],
     [k |-> "fin", s |-> -1, m |-> <<2516, 10207, 4741, 1233>>, e |-> -50],
     [k |-> "fin", s |-> -1, m |-> <<12528, 5706, 11964, 1504>>, e |-> -50],
     [k |-> "fin", s |-> -1, m |-> <<10261, 10581, 7218, 1752>>, e |-> -50],
     [k |-> "fin", s |-> -1, m |-> <<1766, 12489, 8419, 1972>>, e |-> -50],
     [k |-> "fin", s |-> -1, m |-> <<7445, 15994, 12119, 1080>>, e |-> -49],
     [k |-> "fin", s |-> -1, m |-> <<3449, 10278, 2926, 1158>>, e |-> -49],
     [k |-> "fin", s |-> -1, m |-> <<13599, 12330, 5772, 1217>>, e |-> -49],
     [k |-> "fin", s |-> -1, m |-> <<9791, 11868, 5368, 1257>>, e |-> -49],
     [k |-> "fin", s |-> -1, m |-> <<10879, 8122, 7769, 1277>>, e |-> -49],
     [k |-> "fin", s |-> -1, m |-> <<10879, 8122, 7769, 1277>>, e |-> -49],
     [k |-> "fin", s |-> -1, m |-> <<9791, 11868, 5368, 1257>>, e |-> -49],
     [k |-> "fin", s |-> -1, m |-> <<13600, 12330, 5772, 1217>>, e |-> -49],
     [k |-> "fin", s |-> -1, m |-> <<3449, 10278, 2926, 1158>>, e |-> -49],
     [k |-> "fin", s |-> -1, m |-> <<7443, 15994, 12119, 1080>>, e |-> -49],
     [k |-> "fin", s |-> -1, m |-> <<1768, 12489, 8419, 1972>>, e |-> -50],
     [k |-> "fin", s |-> -1, m |-> <<10268, 10581, 7218, 1752>>, e |-> -50],
     [k |-> "fin", s |-> -1, m |-> <<12536, 5706, 11964, 1504>>, e |-> -50],
     [k |-> "fin", s |-> -1, m |-> <<2524, 10207, 4741, 1233>>, e |-> -50],
     [k |-> "fin", s |-> -1, m |-> <<4957, 11083, 13069, 1884>>, e |-> -51],
     [k |-> "fin", s |-> -1, m |-> <<1226, 12614, 4787, 1273>>, e |-> -51],
     [k |-> "fin", s |-> -1, m |-> <<13034, 5158, 6755, 1283>>, e |-> -52],
     [k |-> "fin", s |-> -1, m |-> <<13065, 16229, 15099, 1411>>, e |-> -101],
     [k |-> "fin", s |-> 1, m |-> <<13012, 5158, 6755, 1283>>, e |-> -52],
     [k |-> "fin", s |-> 1, m |-> <<1216, 12614, 4787, 1273>>, e |-> -51],
     [k |-> "fin", s |-> 1, m |-> <<4964, 11083, 13069, 1884>>, e |-> -51],
     [k |-> "fin", s |-> 1, m |-> <<2510, 10207, 4741, 1233>>, e |-> -50],
     [k |-> "fin", s |-> 1, m |-> <<12531, 5706, 11964, 1504>>, e |-> -50],
     [k |-> "fin", s |-> 1, m |-> <<10264, 10581, 7218, 1752>>, e |-> -50],
     [k |-> "fin", s |-> 1, m |-> <<1758, 12489, 8419, 1972>>, e |-> -50],
     [k |-> "fin", s |-> 1, m |-> <<7444, 15994, 12119, 1080>>, e |-> -49],
     [k |-> "fin", s |-> 1, m |-> <<3446, 10278, 2926, 1158>>, e |-> -49] >>

seasonal_component(t) == SeasonalTable[t + 1]

\* What one computation of random.gauss gives for the two results of
\* random() it takes: cos(x2pi) * g2rad and sin(x2pi) * g2rad, as the doubles
\* the expressions evaluate to.
GaussPairs ==
  << \* random() = 0 / 2^53, then 0 / 2^53
     << Zero,
        Zero >>,
     \* random() = 168841135340156 / 2^53, then 9007171077364877 / 2^53
     << [k |-> "fin", s |-> 1, m |-> <<0, 0, 0, 1280>>, e |-> -50],
        [k |-> "fin", s |-> 1, m |-> <<16042, 13574, 10915, 1211>>, e |-> -53] >>,
     \* random() = 2567322111308200 / 2^53, then 6847825926109645 / 2^53
     << [k |-> "fin", s |-> -1, m |-> <<13550, 12833, 6493, 1511>>, e |-> -54],
        [k |-> "fin", s |-> 1, m |-> <<10841, 11115, 14804, 1688>>, e |-> -52] >>,
     \* random() = 6622117962160499 / 2^53, then 9006641714024154 / 2^53
     << [k |-> "fin", s |-> -1, m |-> <<2704, 12032, 972, 1674>>, e |-> -54],
        [k |-> "fin", s |-> -1, m |-> <<7175, 13, 1872, 1122>>, e |-> -50] >>,
     \* random() = 2642046270441919 / 2^53, then 2008566174221450 / 2^53
     << [k |-> "fin", s |-> -1, m |-> <<7067, 786, 11010, 1564>>, e |-> -55],
        [k |-> "fin", s |-> 1, m |-> <<4835, 8052, 4154, 1401>>, e |-> -53] >> >>

\* random.gauss(mu, sigma) when gauss_next is next (<<>> for None) and pair
\* is what a computation gives; returns the result and gauss_next thereafter.
gauss(mu, sigma, next, pair) ==
  IF next = <<>>
  THEN <<FAdd(FromInt(mu), FMul(pair[1], FromInt(sigma))), <<pair[2]>>>>
  ELSE <<FAdd(FromInt(mu), FMul(next[1], FromInt(sigma))), <<>>>>

\* The results of the random calls of one generate_data_point: first and
\* second are the positions in GaussPairs of what the first and the second
\* computation of random.gauss give, hit is random() < 0.05 and pick is the
\* position random.choice takes.  From a fresh generator the second gives
\* 5; after it the fourth gives 25 at t = 1; at t = 0 the fifth and the
\* sixth give 2.675 and -25.955, decimal ties whose doubles lie below the
\* tie.
Draws ==
  { [first |-> 1, second |-> 1, hit |-> FALSE, pick |-> 1],
    [first |-> 2, second |-> 1, hit |-> FALSE, pick |-> 1],
    [first |-> 1, second |-> 1, hit |-> TRUE, pick |-> 1],
    [first |-> 3, second |-> 1, hit |-> TRUE, pick |-> 1],
    [first |-> 4, second |-> 1, hit |-> TRUE, pick |-> 1],
    [first |-> 1, second |-> 5, hit |-> TRUE, pick |-> 2] }

\* generate_data_point(t) when gauss_next is next and its random calls
\* return d; returns the value, the flag and gauss_next thereafter.
generate_data_point(t, next, d) ==
  LET noise == gauss(0, 1, next, GaussPairs[d.first])
      high == gauss(25, 5, noise[2], GaussPairs[d.first])
      low == gauss(-25, 5, high[2], GaussPairs[d.second])
      outlier == IF d.pick = 1 THEN high[1] ELSE low[1]
  IN IF d.hit
     THEN <<FAdd(FAdd(seasonal_component(t), noise[1]), outlier), TRUE,
            low[2]>>
     ELSE <<FAdd(seasonal_component(t), noise[1]), FALSE, noise[2]>>

\* What gauss_next can be: None or the second result of a computation.
GaussNexts == {<<>>} \cup { <<GaussPairs[i][2]>> : i \in 1..Len(GaussPairs) }

\* The values generate_data_point(t) can return.
SampleValues(t) ==
  { generate_data_point(t, next, d)[1] : next \in GaussNexts, d \in Draws }

\* ------------------------------------------------- run_anomaly_detection
Init ==
  /\ current_time = 0
  /\ new_value = FromInt(0)
  /\ is_generated_anomaly = FALSE
  /\ detected = FALSE
  /\ previous_value = FromInt(0)
  /\ window = <<>>
  /\ mean = FromInt(0)
  /\ std_dev = FromInt(1)
  /\ data_x = <<>>
  /\ data_y = <<>>
  /\ anomaly_x = <<>>
  /\ anomaly_y = <<>>
  /\ anomaly_labels = <<>>
  /\ gauss_next = <<>>
  /\ calls = <<>>

\* One iteration of the loop for the sample <<new, flag>>.
Tick(new, flag) ==
  LET now == current_time + 1
      window1 == DequeAppend(window, new, WINDOW_SIZE)
      stats == update_mean_std(new, mean, std_dev, window1)
      hit == detect_anomaly(new, previous_value, flag)
      ax1 == IF hit THEN DequeAppend(anomaly_x, now, DISPLAY_DURATION)
             ELSE anomaly_x
      ay1 == IF hit THEN DequeAppend(anomaly_y, new, DISPLAY_DURATION)
             ELSE anomaly_y
      al1 == IF hit
             THEN DequeAppend(anomaly_labels, FormatFixed2(new),
                              DISPLAY_DURATION)
             ELSE anomaly_labels
      dx1 == DequeAppend(data_x, now, DISPLAY_DURATION)
      dy1 == DequeAppend(data_y, new, DISPLAY_DURATION)
      data1 == clean_old_data(dx1, dy1, now)
      anom1 == clean_old_anomalies(ax1, ay1, al1, now)
  IN /\ current_time < MaxTick
     /\ current_time' = now
     /\ new_value' = new
     /\ is_generated_anomaly' = flag
     /\ detected' = hit
     /\ window' = window1
     /\ mean' = stats[1]
     /\ std_dev' = stats[2]
     /\ anomaly_x' = anom1[1]
     /\ anomaly_y' = anom1[2]
     /\ anomaly_labels' = anom1[3]
     /\ data_x' = data1[1]
     /\ data_y' = data1[2]
     /\ previous_value' = new
     /\ UNCHANGED calls

\* ------------------------------------------------------------ data_stream
\* The generator's t is 0 for the first sample and grows by one per sample,
\* so the sample of the tick that starts at current_time is
\* generate_data_point(current_time).
data_stream(d) == generate_data_point(current_time, gauss_next, d)

\* One sample is drawn and the loop body runs on it.  After the first
\* MaxFree samples random() stays on the side of 0.05 it was on for the
\* sample before, every computation of random.gauss gives the first pair and
\* random.choice takes the first position.
Next ==
  \E d \in Draws :
    /\ current_time >= MaxFree =>
         d = [first |-> 1, second |-> 1, hit |-> is_generated_anomaly,
              pick |-> 1]
    /\ Tick(data_stream(d)[1], data_stream(d)[2])
    /\ gauss_next' = data_stream(d)[3]

Spec == Init /\ [][Next]_vars

\* ------------------------------------------------------------ direct calls
\* Arguments of the direct calls: the bounds, their neighbours, and the
\* values that are not finite.
CallValues ==
  { FromInt(LOWER_BOUND - 1), FromInt(LOWER_BOUND), FromInt(0),
    FromInt(UPPER_BOUND), FromInt(UPPER_BOUND + 1), NaN, PInf, NInf }

PreviousValues == { FromInt(0), FromInt(UPPER_BOUND + 1) }

\* window.append(v) on the module's deque.
CallAppend(v) ==
  /\ Len(calls) < MaxCalls
  /\ window' = DequeAppend(window, v, WINDOW_SIZE)
  /\ calls' = Append(calls, "append")
  /\ UNCHANGED <<current_time, new_value, is_generated_anomaly, detected,
                 previous_value, mean, std_dev, data_x, data_y,
                 anomaly_x, anomaly_y, anomaly_labels, gauss_next>>

\* update_mean_std(v).
CallUpdate(v) ==
  LET stats == update_mean_std(v, mean, std_dev, window)
  IN /\ Len(calls) < MaxCalls
     /\ new_value' = v
     /\ mean' = stats[1]
     /\ std_dev' = stats[2]
     /\ calls' = Append(calls, "update_mean_std")
     /\ UNCHANGED <<current_time, is_generated_anomaly, detected,
                    previous_value, window, data_x, data_y,
                    anomaly_x, anomaly_y, anomaly_labels, gauss_next>>

\* detect_anomaly(v, p, f); detected is what it returned.
CallDetect(v, p, f) ==
  /\ Len(calls) < MaxCalls
  /\ new_value' = v
  /\ previous_value' = p
  /\ is_generated_anomaly' = f
  /\ detected' = detect_anomaly(v, p, f)
  /\ calls' = Append(calls, "detect_anomaly")
  /\ UNCHANGED <<current_time, window, mean, std_dev, data_x, data_y,
                 anomaly_x, anomaly_y, anomaly_labels, gauss_next>>

NextCalls ==
  \/ \E v \in CallValues : CallAppend(v)
  \/ \E v \in CallValues : CallUpdate(v)
  \/ \E v \in CallValues, p \in PreviousValues, f \in BOOLEAN :
       CallDetect(v, p, f)

SpecCalls == Init /\ [][NextCalls]_vars

\* ------------------------------------------------------------ properties
Last(d) == d[Len(d)]

InSeq(x, d) == \E i \in 1..Len(d) : d[i] = x

NonDecreasing(d) == \A i \in 1..(Len(d) - 1) : d[i] <= d[i + 1]

AllEqual(d, x) == \A i \in 1..Len(d) : d[i] = x

Min(a, b) == IF a < b THEN a ELSE b

\* The last direct call was a call of the function named f.
Called(f) == calls # <<>> /\ Last(calls) = f

\* C1: detect_anomaly returns true when the flag is set, whatever the value;
\* with the flag clear it returns true exactly when the value is below
\* LOWER_BOUND or above UPPER_BOUND: true for -21, 21 and the infinities,
\* false for -20, 0 and 20.
C1_Classification ==
  Called("detect_anomaly") =>
    /\ is_generated_anomaly => detected
    /\ ~is_generated_anomaly =>
         /\ detected <=> \/ FLt(new_value, FromInt(LOWER_BOUND))
                         \/ FLt(FromInt(UPPER_BOUND), new_value)
         /\ new_value \in {FromInt(-21), FromInt(21), PInf, NInf} => detected
         /\ new_value \in {FromInt(-20), FromInt(0), FromInt(20)} => ~detected

C1_Witness ==
  /\ Called("detect_anomaly")
  /\ ~is_generated_anomaly
  /\ new_value = FromInt(UPPER_BOUND)
  /\ previous_value = FromInt(UPPER_BOUND + 1)
  /\ ~detected

\* C2: after tick t for (value, flag) the raw-data series ends with
\* (t, value); the anomaly series ends with (t, value, label) when the sample
\* was classified anomalous and holds no entry of tick t otherwise.  The
\* label is the value with two decimals.
C2_TickState ==
  current_time > 0 =>
    /\ Last(data_x) = current_time
    /\ Last(data_y) = new_value
    /\ detected =>
         /\ anomaly_x # <<>>
         /\ Last(anomaly_x) = current_time
         /\ Last(anomaly_y) = new_value
         /\ Last(anomaly_labels) = FormatFixed2(new_value)
         /\ new_value = FromInt(25) => Last(anomaly_labels) = "25.00"
         /\ new_value = FromMilli(2675) => Last(anomaly_labels) = "2.67"
         /\ new_value = FromMilli(-25955) => Last(anomaly_labels) = "-25.95"
    /\ ~detected => ~InSeq(current_time, anomaly_x)

\* C2, the scenario: tick 1 with (5.0, false), then tick 2 with (25.0, true).
C2_ScenarioStep ==
  /\ (/\ current_time' = 1 /\ new_value' = FromInt(5)
      /\ ~is_generated_anomaly')
     => /\ ~detected'
        /\ data_x' = <<1>> /\ data_y' = <<FromInt(5)>>
        /\ anomaly_x' = <<>> /\ anomaly_y' = <<>> /\ anomaly_labels' = <<>>
  /\ (/\ current_time = 1 /\ new_value = FromInt(5)
      /\ ~is_generated_anomaly
      /\ new_value' = FromInt(25) /\ is_generated_anomaly')
     => /\ detected'
        /\ data_x' = <<1, 2>>
        /\ data_y' = <<FromInt(5), FromInt(25)>>
        /\ anomaly_x' = <<2>> /\ anomaly_y' = <<FromInt(25)>>
        /\ anomaly_labels' = <<"25.00">>

C2_TickAppends == [](C2_TickState) /\ [][C2_ScenarioStep]_vars

C2_Witness ==
  /\ current_time = 2
  /\ data_y = <<FromInt(5), FromInt(25)>>
  /\ is_generated_anomaly
  /\ anomaly_x = <<2>>

\* C3: after tick t the raw-data series holds only timestamps greater than
\* t - WINDOW_SIZE.
C3_RawWindow ==
  \A i \in 1..Len(data_x) : data_x[i] > current_time - WINDOW_SIZE

C3_Witness ==
  /\ current_time = 50
  /\ Len(data_x) = WINDOW_SIZE
  /\ data_x[1] = 11

\* C4 as stated: in both series the most recently appended entry survives
\* every tick, so a series that holds an entry never becomes empty.
C4_TailNeverRemoved ==
  [][/\ data_x # <<>> => InSeq(Last(data_x), data_x')
     /\ anomaly_x # <<>> => InSeq(Last(anomaly_x), anomaly_x')]_vars

\* C4 amended: the most recent raw-data entry survives every tick; the most
\* recent anomaly survives a tick unless its timestamp is below that tick's
\* cutoff t - WINDOW_SIZE.
C4_TailKeptUntilCutoff ==
  [][/\ data_x # <<>> => InSeq(Last(data_x), data_x')
     /\ (anomaly_x # <<>> /\ Last(anomaly_x) >= current_time' - WINDOW_SIZE)
        => InSeq(Last(anomaly_x), anomaly_x')]_vars

C4_Witness ==
  /\ Len(anomaly_x) = 1
  /\ anomaly_x[1] = current_time - WINDOW_SIZE
  /\ ~detected

\* C5: after the first update mean is the sample and std_dev is 0; after
\* the second update std_dev is 1.
C5_FirstTwoUpdates ==
  /\ current_time = 1 => (mean = new_value /\ std_dev = FromInt(0))
  /\ current_time = 2 => std_dev = FromInt(1)

\* C6: while every sample fed so far is the same value v, mean is v.  Up to
\* WINDOW_SIZE ticks the window holds every sample fed so far.
C6_ConstantMean ==
  (current_time > 0 /\ current_time <= WINDOW_SIZE
     /\ AllEqual(window, new_value))
  => mean = new_value

\* C7: the timestamps of the raw-data series and of the anomaly series are
\* in non-decreasing order from head to tail.
C7_TimeOrdered == NonDecreasing(data_x) /\ NonDecreasing(anomaly_x)

C7_Witness ==
  /\ current_time > WINDOW_SIZE + 1
  /\ Len(data_x) = DISPLAY_DURATION
  /\ anomaly_x # <<>>
  /\ ~detected
  /\ anomaly_x[1] > 1
  /\ data_x[1] > anomaly_x[1]

\* C8: the anomaly series never holds more than DISPLAY_DURATION records,
\* and an anomaly appended to a full series drops the oldest record.
C8_OverflowStep ==
  (Len(anomaly_x) = DISPLAY_DURATION /\ detected')
  => /\ anomaly_x' = Tail(anomaly_x) \o <<current_time'>>
     /\ anomaly_y' = Tail(anomaly_y) \o <<new_value'>>
     /\ anomaly_labels' = Tail(anomaly_labels) \o <<Last(anomaly_labels')>>

C8_Capacity ==
  /\ [](/\ Len(anomaly_x) <= DISPLAY_DURATION
        /\ Len(anomaly_y) <= DISPLAY_DURATION
        /\ Len(anomaly_labels) <= DISPLAY_DURATION)
  /\ [][C8_OverflowStep]_vars

C8_Witness ==
  /\ current_time > DISPLAY_DURATION
  /\ Len(anomaly_x) = DISPLAY_DURATION
  /\ anomaly_x[1] = current_time - DISPLAY_DURATION + 1
  /\ detected

\* C9: an update with a value that is nan or an infinity leaves mean,
\* std_dev and the window as they were, and such a value, with the flag
\* clear, is classified as not anomalous.
C9_InvalidSampleRejected ==
  [][/\ (Len(calls') > Len(calls) /\ Called("update_mean_std")'
         /\ ~IsFinite(new_value'))
        => (mean' = mean /\ std_dev' = std_dev /\ window' = window)
     /\ (Len(calls') > Len(calls) /\ Called("detect_anomaly")'
         /\ ~IsFinite(new_value') /\ ~is_generated_anomaly')
        => ~detected']_vars

\* C10: after tick t neither series holds a timestamp below
\* t - WINDOW_SIZE, and in each series the newest timestamp minus the oldest
\* is at most WINDOW_SIZE.
C10_Retention ==
  /\ \A i \in 1..Len(data_x) : data_x[i] >= current_time - WINDOW_SIZE
  /\ \A i \in 1..Len(anomaly_x) : anomaly_x[i] >= current_time - WINDOW_SIZE
  /\ data_x # <<>> => Last(data_x) - data_x[1] <= WINDOW_SIZE
  /\ anomaly_x # <<>> => Last(anomaly_x) - anomaly_x[1] <= WINDOW_SIZE

C10_Witness ==
  /\ Len(anomaly_x) >= 2
  /\ anomaly_x[1] = current_time - WINDOW_SIZE
  /\ Last(anomaly_x) > anomaly_x[1]

\* The anomaly deques hold the record (x, y, label) at one position.
InAnomalies(x, y, label, ax, ay, al) ==
  \E i \in 1..Len(ax) :
    i <= Len(ay) /\ i <= Len(al) /\ ax[i] = x /\ ay[i] = y /\ al[i] = label

\* C11: an anomaly of tick s is recorded at tick s, every record of tick s
\* survives each tick t < s + WINDOW_SIZE whatever that tick's sample is,
\* and no record of tick s is left after a tick t > s + WINDOW_SIZE.
C11_KeepStep ==
  \A i \in 1..Len(anomaly_x) :
    current_time' < anomaly_x[i] + WINDOW_SIZE
    => InAnomalies(anomaly_x[i], anomaly_y[i], anomaly_labels[i],
                   anomaly_x', anomaly_y', anomaly_labels')

C11_AnomalyLifetime ==
  /\ [](detected => InSeq(current_time, anomaly_x))
  /\ [][C11_KeepStep]_vars
  /\ [](\A i \in 1..Len(anomaly_x) :
          ~(current_time > anomaly_x[i] + WINDOW_SIZE))

C11_Witness ==
  /\ anomaly_x # <<>>
  /\ anomaly_x[1] = current_time - WINDOW_SIZE + 1
  /\ Len(anomaly_x) < DISPLAY_DURATION
  /\ ~detected

\* mean and std_dev after the update with x of a window of n samples, from
\* mean m and std_dev s; m1 is the mean after the update.
MeanAfter(x, m, n) == FAdd(m, FDivInt(FSub(x, m), n + 1))

StdDevAfter(x, m, m1, s, n) ==
  IF n > 1
  THEN FSqrt(FDivInt(FAdd(s, FMul(FSub(x, m), FSub(x, m1))), n))
  ELSE FromInt(1)

\* C12: the decision of a tick is a function of the tick's value and flag
\* alone: it is true exactly when the flag is set or the value is outside
\* the bounds, and it is the same whatever the sample before was; and the
\* tick leaves window, mean, std_dev and previous_value as the append, the
\* arithmetic of the statistics update and the loop's own assignment set
\* them, so classifying has changed none of them.
C12_Decision ==
  current_time > 0 =>
    (detected <=> \/ is_generated_anomaly
                  \/ FLt(new_value, FromInt(LOWER_BOUND))
                  \/ FLt(FromInt(UPPER_BOUND), new_value))

C12_Step ==
  current_time' = current_time + 1 =>
    /\ \A pv \in (IF current_time > 0 THEN SampleValues(current_time - 1)
                   ELSE {}) \cup {previous_value} :
         detected' = detect_anomaly(new_value', pv, is_generated_anomaly')
    /\ window' = (IF Len(window) = WINDOW_SIZE THEN Tail(window)
                  ELSE window) \o <<new_value'>>
    /\ mean' = MeanAfter(new_value', mean, Len(window'))
    /\ std_dev' = StdDevAfter(new_value', mean, mean', std_dev, Len(window'))
    /\ previous_value' = new_value'

C12_DecisionLocal == [](C12_Decision) /\ [][C12_Step]_vars

C12_Witness ==
  /\ current_time > 1
  /\ ~detected
  /\ ~is_generated_anomaly
  /\ FLt(FromInt(UPPER_BOUND), data_y[Len(data_y) - 1])
  /\ FLt(FromInt(30), FSub(data_y[Len(data_y) - 1], new_value))
  /\ mean # new_value

\* C13: the window never holds more than WINDOW_SIZE samples, and the n of
\* the update of tick t is min(t, WINDOW_SIZE): mean moves by
\* (value - mean) / (n + 1) with that n.
C13_Step ==
  current_time' = current_time + 1 =>
    mean' = FAdd(mean, FDivInt(FSub(new_value', mean),
                               Min(current_time', WINDOW_SIZE) + 1))

C13_BoundedN ==
  /\ [](Len(window) = Min(current_time, WINDOW_SIZE))
  /\ [][C13_Step]_vars

C13_Witness ==
  /\ current_time > WINDOW_SIZE + 1
  /\ Len(window) = WINDOW_SIZE
  /\ mean # new_value

\* C14: the three anomaly deques have one length, the two data deques have
\* one length, every label is its value with two decimals, an anomaly whose
\* tick is still in the raw data carries that tick's value, and every record
\* after a tick is the tick's own or a record of before, unchanged.
C14_AlignedState ==
  /\ Len(anomaly_x) = Len(anomaly_y)
  /\ Len(anomaly_x) = Len(anomaly_labels)
  /\ Len(data_x) = Len(data_y)
  /\ \A i \in 1..Len(anomaly_x) :
       /\ anomaly_labels[i] = FormatFixed2(anomaly_y[i])
       /\ \A j \in 1..Len(data_x) :
            data_x[j] = anomaly_x[i] => data_y[j] = anomaly_y[i]

C14_AlignedStep ==
  /\ \A i \in 1..Len(anomaly_x') :
       \/ /\ anomaly_x'[i] = current_time'
          /\ anomaly_y'[i] = new_value'
       \/ InAnomalies(anomaly_x'[i], anomaly_y'[i], anomaly_labels'[i],
                      anomaly_x, anomaly_y, anomaly_labels)
  /\ \A j \in 1..Len(data_x') :
       \/ data_x'[j] = current_time' /\ data_y'[j] = new_value'
       \/ \E k \in 1..Len(data_x) :
            data_x[k] = data_x'[j] /\ data_y[k] = data_y'[j]

C14_Aligned == [](C14_AlignedState) /\ [][C14_AlignedStep]_vars

C14_Witness ==
  /\ current_time > DISPLAY_DURATION
  /\ Len(anomaly_x) = DISPLAY_DURATION
  /\ anomaly_x[1] = 2
  /\ anomaly_labels[1] # anomaly_labels[2]

\* C15: every record of the anomaly series has an entry of the raw-data
\* series with the same timestamp and value.
C15_AnomaliesInData ==
  \A i \in 1..Len(anomaly_x) :
    \E j \in 1..Len(data_x) :
      data_x[j] = anomaly_x[i] /\ data_y[j] = anomaly_y[i]

\* C16: after tick t the raw-data series holds the timestamps
\* t - min(t, 40) + 1 .. t, its values are the contents of the statistics
\* window, and the tick's time-based eviction took nothing from it: the
\* series is what the appends alone leave.
C16_RawState ==
  /\ Len(data_x) = Min(current_time, DISPLAY_DURATION)
  /\ \A i \in 1..Len(data_x) : data_x[i] = current_time - Len(data_x) + i
  /\ data_y = window

C16_RawStep ==
  current_time' = current_time + 1 =>
    /\ data_x' = (IF Len(data_x) = DISPLAY_DURATION THEN Tail(data_x)
                  ELSE data_x) \o <<current_time'>>
    /\ data_y' = (IF Len(data_y) = DISPLAY_DURATION THEN Tail(data_y)
                  ELSE data_y) \o <<new_value'>>

C16_RawIsWindow == [](C16_RawState) /\ [][C16_RawStep]_vars

C16_Witness ==
  /\ current_time > WINDOW_SIZE
  /\ Len(data_y) = WINDOW_SIZE
  /\ data_y = window
  /\ data_y[1] # data_y[2]

====
